---- MODULE Spec2Model ----
(***************************************************************************)
(* peres (pev): resource tree reports, extraction and version decoding.    *)
(* The model follows src/src/peres.c.  The tree, the mapped image, the     *)
(* offset translation, the bounds check and the well-known type table are  *)
(* libpe collaborators: they are modelled at their interface.              *)
(***************************************************************************)
EXTENDS Integers, Sequences, FiniteSets, TLC

(***************************************************************************)
(* Sizes.                                                                  *)
(***************************************************************************)
\* capacity of the path buffers (char x[MAX_PATH])
MAX_PATH == 32
\* number of bytes of the mapped image: the mapped range is [0, MapSize)
MapSize == 200
\* sizeof(dirName), peres_save_resource
DirNameSize == 100
\* the literal 32 skipped before VS_FIXEDFILEINFO, peres_show_version
VersionSkip == 32
\* sizeof(IMAGE_RESOURCE_DATA_STRING_U): uint16 Length, uint16 String[1]
SizeofDataString == 4
\* RT_VERSION, the well-known type id of version resources
RT_VERSION == 16
\* RT_ICON, another well-known type id
RT_ICON == 3

LIBPE_RDT_LEVEL1 == 1
LIBPE_RDT_LEVEL2 == 2
LIBPE_RDT_LEVEL3 == 3

NULL == <<0>>

Min(a, b) == IF a < b THEN a ELSE b
Last(s) == s[Len(s)]
Front(s) == SubSeq(s, 1, Len(s) - 1)
Take(s, n) == SubSeq(s, 1, Min(n, Len(s)))

(***************************************************************************)
(* Narrow text is a sequence of character codes; 0 is the terminator.      *)
(***************************************************************************)
ChSpace == <<32>>
ChSlash == <<47>>
Str_resources == <<114, 101, 115, 111, 117, 114, 99, 101, 115>>
Str_bin == <<46, 98, 105, 110>>

\* what a C string function sees of a byte array: the bytes before the first 0
RECURSIVE CStr(_)
CStr(bytes) ==
    IF bytes = <<>> \/ Head(bytes) = 0 THEN <<>>
    ELSE <<Head(bytes)>> \o CStr(Tail(bytes))

\* snprintf(buf, size, "%s", s): at most size-1 characters are kept
Snprintf(size, s) == Take(s, size - 1)

\* "%u"
RECURSIVE FormatDec(_)
FormatDec(n) ==
    IF n < 10 THEN <<48 + n>> ELSE FormatDec(n \div 10) \o <<48 + (n % 10)>>

HexDigit(d) == IF d < 10 THEN 48 + d ELSE 87 + d

RECURSIVE FormatHex(_)
FormatHex(n) ==
    IF n < 16 THEN <<HexDigit(n)>>
    ELSE FormatHex(n \div 16) \o <<HexDigit(n % 16)>>

\* "%04x": lower-case hexadecimal, zero-padded to four digits
FormatHex04(n) ==
    LET h == FormatHex(n)
    IN  IF Len(h) >= 4 THEN h ELSE [i \in 1..(4 - Len(h)) |-> 48] \o h

(***************************************************************************)
(* The well-known type table (pe_resource_entry_info_lookup).              *)
(***************************************************************************)
ResourceEntryInfoTable ==
    { [type |-> RT_ICON,
       name |-> <<82, 84, 95, 73, 67, 79, 78>>,
       extension |-> <<46, 105, 99, 111>>,
       dir_name |-> <<105, 99, 111, 110, 115>>],
      [type |-> RT_VERSION,
       name |-> <<82, 84, 95, 86, 69, 82, 83, 73, 79, 78>>,
       extension |-> <<46, 114, 99>>,
       dir_name |-> <<118, 101, 114, 115, 105, 111, 110, 115>>] }

\* the NULL of a table lookup
NoEntryInfo == [type |-> -1, name |-> <<>>, extension |-> <<>>, dir_name |-> <<>>]

pe_resource_entry_info_lookup(id) ==
    IF \E e \in ResourceEntryInfoTable : e.type = id
    THEN CHOOSE e \in ResourceEntryInfoTable : e.type = id
    ELSE NoEntryInfo

(***************************************************************************)
(* The mapped image.  Addresses are offsets from map_addr.                 *)
(***************************************************************************)
\* offset of the resource directory in the image (resource_base_ptr)
ResourceBase == 16

\* the length-prefixed wide strings of the image: header address, Length,
\* and the low byte of every wide character
ImageStrings ==
    { [addr |-> 24, Length |-> 2, chars |-> <<97, 98>>],
      [addr |-> 32, Length |-> 1, chars |-> <<0>>],
      [addr |-> 40, Length |-> 3, chars |-> <<97, 47, 98>>],
      [addr |-> 48, Length |-> 40, chars |-> [i \in 1..40 |-> 97]],
      [addr |-> MapSize - SizeofDataString, Length |-> 3, chars |-> <<99>>] }

\* the 16-bit Length field at address a
ReadLength(a) ==
    IF \E s \in ImageStrings : s.addr = a
    THEN (CHOOSE s \in ImageStrings : s.addr = a).Length
    ELSE 0

\* the low byte of the wide character at address a (a mapped address)
ReadByte(a) ==
    LET hit == { s \in ImageStrings :
                   \E i \in 1..Len(s.chars) : a = s.addr + 2 * i }
    IN  IF hit = {} THEN 0
        ELSE LET s == CHOOSE s \in hit : TRUE
             IN  s.chars[(a - s.addr) \div 2]

\* pe_can_read(ctx, ptr, size)
pe_can_read(ptr, size) == ptr >= 0 /\ ptr + size <= MapSize

\* the one section of the image: relative virtual addresses to file offsets
Section == [VirtualAddress |-> 4096, VirtualSize |-> 72, PointerToRawData |-> 128]

pe_rva2ofs(rva) ==
    IF Section.VirtualAddress <= rva
       /\ rva < Section.VirtualAddress + Section.VirtualSize
    THEN rva - Section.VirtualAddress + Section.PointerToRawData
    ELSE rva

(***************************************************************************)
(* The resource tree.  The tree is described by the entries of the root    *)
(* directory; a node is named by its path of child indices from the root   *)
(* (<<>> is the root ResourceDirectory).  A DirectoryEntry has, in order,  *)
(* a DataString child when its name is a string, then the                  *)
(* ResourceDirectory or the DataEntry it refers to.                        *)
(***************************************************************************)
NameId(id) == [NameIsString |-> FALSE, NameOffset |-> id]
NameStr(off) == [NameIsString |-> TRUE, NameOffset |-> off]

\* the 32-bit Name field, as its bit 31 (NameIsString) and its bits 0..30
\* (NameOffset)
NameField(n) ==
    [bit31 |-> IF n.NameIsString THEN 1 ELSE 0, low |-> n.NameOffset]

\* pe_resource_entry_info_lookup(u0.Name): a Name with bit 31 set is no id
\* of the table
LookupByName(name) ==
    IF name.bit31 = 1 THEN NoEntryInfo ELSE pe_resource_entry_info_lookup(name.low)

DirEntry(n, kids) ==
    [name |-> n, DataIsDirectory |-> TRUE, kids |-> kids,
     OffsetToData |-> 0, Size |-> 0]
LeafEntry(n, d) ==
    [name |-> n, DataIsDirectory |-> FALSE, kids |-> <<>>,
     OffsetToData |-> d.OffsetToData, Size |-> d.Size]

\* the node at path p below a directory with entries ents, whose entries
\* are at directory level `level`
RECURSIVE NodeBelow(_, _, _)
NodeBelow(ents, p, level) ==
    IF p = <<>>
    THEN [type |-> "ResourceDirectory", dirLevel |-> level - 1,
          nkids |-> Len(ents)]
    ELSE LET e == ents[Head(p)]
             s == IF e.name.NameIsString THEN 1 ELSE 0
             rest == Tail(p)
         IN  IF rest = <<>>
             THEN [type |-> "DirectoryEntry", dirLevel |-> level, nkids |-> s + 1,
                   NameIsString |-> e.name.NameIsString,
                   NameOffset |-> e.name.NameOffset,
                   Name |-> NameField(e.name),
                   DataIsDirectory |-> e.DataIsDirectory]
             ELSE IF s = 1 /\ Head(rest) = 1
             THEN [type |-> "DataString", dirLevel |-> level, nkids |-> 0,
                   strAddr |-> ResourceBase + e.name.NameOffset]
             ELSE IF e.DataIsDirectory
             THEN NodeBelow(e.kids, Tail(rest), level + 1)
             ELSE [type |-> "DataEntry", dirLevel |-> level, nkids |-> 0,
                   OffsetToData |-> e.OffsetToData, Size |-> e.Size]

Node(t, p) == NodeBelow(t, p, 1)

childNode(t, p) == IF Node(t, p).nkids > 0 THEN p \o <<1>> ELSE NULL

nextNode(t, p) ==
    IF p = <<>> THEN NULL
    ELSE IF Last(p) < Node(t, Front(p)).nkids
         THEN Front(p) \o <<Last(p) + 1>>
         ELSE NULL

parentNode(t, p) == IF p = <<>> THEN NULL ELSE Front(p)

\* all nodes of the tree rooted at p, p first, then each child's subtree in
\* sibling order
RECURSIVE SubtreeNodes(_, _)
RECURSIVE ChildrenFrom(_, _, _)
SubtreeNodes(t, p) == <<p>> \o ChildrenFrom(t, p, 1)
ChildrenFrom(t, p, i) ==
    IF i > Node(t, p).nkids THEN <<>>
    ELSE SubtreeNodes(t, p \o <<i>>) \o ChildrenFrom(t, p, i + 1)

(***************************************************************************)
(* pe_resource_find_parent_node_by_type_and_level: the nearest ancestor of *)
(* the given type and level, or NULL.  `lost` is the set of levels at      *)
(* which the lookup finds no node.                                         *)
(***************************************************************************)
RECURSIVE FindUp(_, _, _, _)
FindUp(t, p, type, level) ==
    IF p = NULL THEN NULL
    ELSE IF Node(t, p).type = type /\ Node(t, p).dirLevel = level THEN p
    ELSE FindUp(t, parentNode(t, p), type, level)

pe_resource_find_parent_node_by_type_and_level(t, lost, node, type, level) ==
    IF level \in lost THEN NULL
    ELSE FindUp(t, parentNode(t, node), type, level)

(***************************************************************************)
(* pe_utils_str_widechar2ascii(partial_path, String, string_size): the low *)
(* byte of each of the first string_size wide characters after the header  *)
(* at ptr.  A character outside the mapped range reads as `garbage`.       *)
(***************************************************************************)
pe_utils_str_widechar2ascii(ptr, string_size, garbage) ==
    [k \in 1..string_size |->
        IF ptr + 2 * k + 2 <= MapSize THEN ReadByte(ptr + 2 * k) ELSE garbage]

(***************************************************************************)
(* strncat(output, partial_path, n): the characters appended (n is a       *)
(* size_t: a negative difference wraps to a huge count).                   *)
(***************************************************************************)
StrncatTaken(partial, n) == IF n < 0 THEN partial ELSE Take(partial, n)

(***************************************************************************)
(* peres_build_node_filename.  The result records the text left in the     *)
(* output buffer, how the call ended, the index of every byte of the       *)
(* output buffer written, the ranges accepted by pe_can_read and the       *)
(* ranges of the image read.                                               *)
(* The result also records the ancestor pointers the call dereferenced.    *)
(*   status "ok"         the loop ended and the last character was cut     *)
(*          "unreadable" a string header failed the bounds check (return)  *)
(*          "null"       the ancestor lookup gave NULL, which is           *)
(*                       dereferenced                                      *)
(***************************************************************************)
\* lines 280-283: the text of partial_path for a string-form name
StringPartialPath(ptr, garbage) ==
    LET string_size == Min(MAX_PATH - 2, ReadLength(ptr))
    IN  CStr(pe_utils_str_widechar2ascii(ptr, string_size, garbage) \o <<32, 0>>)

\* the range of the image read for the body of the string at ptr
StringBodyRead(ptr) ==
    LET string_size == Min(MAX_PATH - 2, ReadLength(ptr))
    IN  IF string_size = 0 THEN {}
        ELSE {<<ptr + 2, ptr + 2 + 2 * string_size>>}

\* lines 285-290: the text of partial_path for a numeric name
NumericPartialPath(level, NameOffset) ==
    LET match == pe_resource_entry_info_lookup(NameOffset)
    IN  IF level = 1 /\ match # NoEntryInfo
        THEN Snprintf(MAX_PATH, match.name \o ChSpace)
        ELSE Snprintf(MAX_PATH, FormatHex04(NameOffset) \o ChSpace)

\* lines 296-297: length = strlen(output); output[length-1] = '\0'
StripIndex(output) == Len(output) - 1

StripLast(output) == IF output = <<>> THEN output ELSE Front(output)

\* how a call ended, with what it left and did
BuildResult(status, output, acc) ==
    [status |-> status, output |-> output, writes |-> acc.writes,
     checks |-> acc.checks, reads |-> acc.reads, derefs |-> acc.derefs]

\* lines 296-297, after the loop
BuildEnd(output, acc) ==
    BuildResult("ok", StripLast(output),
                [acc EXCEPT !.writes = @ \cup {StripIndex(output)}])

\* lines 274-291: partial_path for the entry de
PartialPath(level, de, garbage) ==
    IF de.NameIsString
    THEN StringPartialPath(ResourceBase + de.NameOffset, garbage)
    ELSE NumericPartialPath(level, de.NameOffset)

\* the checks and reads of one level, and the bytes strncat writes: the
\* characters taken and the terminator, from index strlen(output) on
LevelTrace(acc, de, output, taken) ==
    [writes |-> acc.writes \cup (Len(output)..(Len(output) + Len(taken))),
     checks |-> IF de.NameIsString
                THEN acc.checks \cup
                     {<<ResourceBase + de.NameOffset,
                        ResourceBase + de.NameOffset + SizeofDataString>>}
                ELSE acc.checks,
     reads |-> IF de.NameIsString
               THEN acc.reads
                    \cup {<<ResourceBase + de.NameOffset,
                            ResourceBase + de.NameOffset + 2>>}
                    \cup StringBodyRead(ResourceBase + de.NameOffset)
               ELSE acc.reads,
     derefs |-> acc.derefs]

RECURSIVE BuildFrom(_, _, _, _, _, _, _, _)
RECURSIVE BuildLevel(_, _, _, _, _, _, _, _, _)
RECURSIVE BuildEntry(_, _, _, _, _, _, _, _, _)
RECURSIVE BuildAppend(_, _, _, _, _, _, _, _, _, _)

\* line 293: strncat(output, partial_path, output_size - strlen(output) - 1)
BuildAppend(t, ls, node, level, output, output_size, garbage, acc, de, taken) ==
    BuildFrom(t, ls, node, level + 1, output \o taken, output_size, garbage,
              LevelTrace(acc, de, output, taken))

\* lines 274-291, for the DirectoryEntry de
BuildEntry(t, ls, node, level, output, output_size, garbage, acc, de) ==
    IF de.NameIsString
       /\ ~pe_can_read(ResourceBase + de.NameOffset, SizeofDataString)
    THEN BuildResult("unreadable", output, acc)
    ELSE BuildAppend(t, ls, node, level, output, output_size, garbage, acc, de,
                     StrncatTaken(PartialPath(level, de, garbage),
                                  output_size - Len(output) - 1))

\* line 274: dir_entry_node is dereferenced with no test
BuildLevel(t, ls, node, level, output, output_size, garbage, acc, dir_entry_node) ==
    IF dir_entry_node = NULL
    THEN BuildResult("null", output, [acc EXCEPT !.derefs = @ \cup {NULL}])
    ELSE BuildEntry(t, ls, node, level, output, output_size, garbage,
                    [acc EXCEPT !.derefs = @ \cup {dir_entry_node}],
                    Node(t, dir_entry_node))

\* line 270: the loop, from `level` on
BuildFrom(t, ls, node, level, output, output_size, garbage, acc) ==
    IF level > Node(t, node).dirLevel
    THEN BuildEnd(output, acc)
    ELSE BuildLevel(t, ls, node, level, output, output_size, garbage, acc,
                    pe_resource_find_parent_node_by_type_and_level(
                        t, ls, node, "DirectoryEntry", level))

peres_build_node_filename(t, ls, node, output_size, garbage) ==
    BuildFrom(t, ls, node, 1, <<>>, output_size, garbage,
              [writes |-> {}, checks |-> {}, reads |-> {}, derefs |-> {}])

\* a range of the image lies in the mapped range
InMap(r) == r[1] >= 0 /\ r[2] <= MapSize
\* a read is covered by a range a bounds check accepted
Covered(r, checks) == \E c \in checks : c[1] <= r[1] /\ r[2] <= c[2]

(***************************************************************************)
(* Inputs: the trees handed over by the tree collaborator and the options. *)
(***************************************************************************)
\* capacity of the dump's text buffers (char value[MAX_MSG])
MAX_MSG == 81

\* name offsets of the strings of the image, relative to the resource base;
\* StrEdge's header is the last four mapped bytes, StrOut lies outside
StrGood == NameStr(8)
StrNul == NameStr(16)
StrSlash == NameStr(24)
StrLong == NameStr(32)
StrEdge == NameStr(MapSize - SizeofDataString - ResourceBase)
StrOut == NameStr(4000)

\* data entries: readable; readable but shorter than the version record;
\* readable for the extractor with no room after it; not readable
DataGood == [OffsetToData |-> 4104, Size |-> 24]
DataShort == [OffsetToData |-> 4104, Size |-> 4]
DataTail == [OffsetToData |-> 4128, Size |-> 8]
DataBad == [OffsetToData |-> 4148, Size |-> 24]
DataSet == {DataGood, DataShort, DataTail, DataBad}

Path3(n1, n2, n3, d) ==
    DirEntry(n1, <<DirEntry(n2, <<LeafEntry(n3, d)>>)>>)

\* the names of the three ancestors of a leaf
NameTriples ==
    { <<NameId(RT_VERSION), NameId(1), NameId(1033)>>,
      <<NameId(RT_ICON), NameId(8), NameId(1033)>>,
      <<NameId(42), StrGood, NameId(1033)>>,
      <<NameId(42), StrLong, StrLong>>,
      <<NameId(RT_ICON), StrLong, StrSlash>>,
      <<NameId(RT_ICON), StrSlash, NameId(1033)>>,
      <<NameId(RT_ICON), StrOut, NameId(1033)>>,
      <<StrGood, StrNul, NameId(1033)>>,
      <<StrEdge, NameId(1), NameId(1033)>>,
      <<StrNul, StrNul, StrNul>> }

OneLeafTrees ==
    { <<Path3(n[1], n[2], n[3], d)>> : n \in NameTriples, d \in DataSet }

TwoNameTrees ==
    { <<DirEntry(n1, <<DirEntry(na, <<LeafEntry(NameId(1033), d[1])>>),
                       DirEntry(nb, <<LeafEntry(NameId(1033), d[2])>>)>>)>> :
        n1 \in {NameId(RT_ICON), NameId(42)},
        na \in {NameId(1), NameId(8), StrGood},
        nb \in {NameId(1), NameId(8), StrGood},
        d \in {<<DataGood, DataGood>>, <<DataBad, DataGood>>,
               <<DataGood, DataBad>>} }

TwoLangTrees ==
    { <<DirEntry(n1, <<DirEntry(NameId(1),
                         <<LeafEntry(NameId(1033), d[1]),
                           LeafEntry(NameId(1036), d[2])>>)>>)>> :
        n1 \in {NameId(RT_VERSION), NameId(RT_ICON)},
        d \in {<<DataGood, DataGood>>, <<DataBad, DataGood>>,
               <<DataGood, DataBad>>, <<DataShort, DataGood>>,
               <<DataTail, DataGood>>, <<DataBad, DataBad>>} }

TwoTypeTrees ==
    { <<Path3(na, NameId(1), NameId(1033), d[1]),
        Path3(nb, NameId(1), NameId(1033), d[2])>> :
        na \in {NameId(RT_VERSION), NameId(RT_ICON)},
        nb \in {NameId(RT_VERSION), NameId(RT_ICON)},
        d \in {<<DataGood, DataGood>>, <<DataBad, DataGood>>,
               <<DataGood, DataTail>>} }

\* a directory entry that refers to data above level 3
ShallowTrees ==
    { <<LeafEntry(n1, d)>> :
        n1 \in {NameId(RT_VERSION), StrNul}, d \in {DataGood, DataBad} }
    \cup
    { <<DirEntry(NameId(RT_VERSION), <<LeafEntry(n2, d)>>)>> :
        n2 \in {NameId(1), StrNul}, d \in {DataGood, DataBad} }

TreeSet ==
    {<<>>} \cup OneLeafTrees \cup TwoNameTrees \cup TwoLangTrees
    \cup TwoTypeTrees \cup ShallowTrees

\* options_t
Options(all, extract, namedExtract, info, list, statistics, version) ==
    [all |-> all, extract |-> extract, namedExtract |-> namedExtract,
     info |-> info, list |-> list, statistics |-> statistics,
     version |-> version]

OptionSet ==
    { Options(TRUE, FALSE, FALSE, FALSE, FALSE, FALSE, FALSE),
      Options(TRUE, TRUE, TRUE, FALSE, FALSE, FALSE, FALSE),
      Options(FALSE, TRUE, FALSE, FALSE, FALSE, FALSE, FALSE),
      Options(FALSE, TRUE, TRUE, FALSE, FALSE, FALSE, FALSE),
      Options(FALSE, FALSE, FALSE, TRUE, FALSE, FALSE, FALSE),
      Options(FALSE, FALSE, FALSE, FALSE, TRUE, FALSE, FALSE),
      Options(FALSE, FALSE, FALSE, FALSE, FALSE, TRUE, FALSE),
      Options(FALSE, FALSE, FALSE, FALSE, FALSE, FALSE, TRUE),
      Options(FALSE, FALSE, FALSE, TRUE, FALSE, TRUE, FALSE),
      Options(FALSE, TRUE, FALSE, FALSE, TRUE, FALSE, TRUE),
      Options(FALSE, FALSE, FALSE, FALSE, FALSE, FALSE, FALSE) }

\* the values an out-of-range read of the image may give
GarbageSet == {0, 97}

\* main, lines 573-590: the traversals run, in order
Modes(o) ==
    IF o.all THEN <<"nodes", "stats", "list", "save", "version">>
    ELSE (IF o.extract THEN <<"save">> ELSE <<>>)
         \o (IF o.info THEN <<"nodes">> ELSE <<>>)
         \o (IF o.list THEN <<"list">> ELSE <<>>)
         \o (IF o.statistics THEN <<"stats">> ELSE <<>>)
         \o (IF o.version THEN <<"version">> ELSE <<>>)

(***************************************************************************)
(* State.                                                                  *)
(***************************************************************************)
VARIABLES
    tree,        \* the entries of the root directory (resources->root_node)
    lost,        \* levels at which the ancestor lookup finds no node
    options,     \* options_t
    pc,          \* position in main: "start", "open", "resources", "run",
                 \*   a traversal, "close", "unload", "done", "crashed"
    modes,       \* the traversals main has still to call
    stack,       \* pending calls of the running recursive traversal
    visited,     \* the nodes the running traversal has processed, in order
    stats,       \* peres_stats_t
    dumpCount,   \* number of nodes processed by the last dump, -1: none ran
    out,         \* report: open/close markers and the lines emitted
    diag,        \* diagnostics written to stderr
    dirs,        \* directories on disk
    files,       \* files on disk: name and the node whose payload it holds
    exitStatus,  \* "none", "success", "failure"
    checks,      \* ranges pe_can_read accepted in the last call
    reads,       \* ranges of the image read in the last call
    writes,      \* indices of the path buffer written in the last call
    derefs,      \* ancestor pointers dereferenced in the last call
    vpc,         \* position in peres_show_version
    vOuter,      \* result_contains_version_node.items
    vInner,      \* result_is_version_node.items
    vI,          \* index of item_parent in vOuter
    vJ,          \* index of item_child in vInner
    released     \* per allocated result list: times it was released

vars == <<tree, lost, options, pc, modes, stack, visited, stats, dumpCount,
          out, diag, dirs, files, exitStatus, checks, reads, writes,
          derefs, vpc, vOuter, vInner, vI, vJ, released>>

inputVars == <<tree, lost, options>>
traceVars == <<checks, reads, writes, derefs>>
diskVars == <<dirs, files>>
versionVars == <<vpc, vOuter, vInner, vI, vJ, released>>

root_node == <<>>

ZeroStats ==
    [totalCount |-> 0, totalResourceDirectory |-> 0, totalDirectoryEntry |-> 0,
     totalDataString |-> 0, totalDataEntry |-> 0]

InitWith(lostSets) ==
    /\ tree \in TreeSet
    /\ lost \in lostSets
    /\ options \in OptionSet
    /\ pc = "start"
    /\ modes = <<>>
    /\ stack = <<>>
    /\ visited = <<>>
    /\ stats = ZeroStats
    /\ dumpCount = -1
    /\ out = <<>>
    /\ diag = <<>>
    /\ dirs = {}
    /\ files = {}
    /\ exitStatus = "none"
    /\ checks = {}
    /\ reads = {}
    /\ writes = {}
    /\ derefs = {}
    /\ vpc = "idle"
    /\ vOuter = <<>>
    /\ vInner = <<>>
    /\ vI = 0
    /\ vJ = 0
    /\ released = <<>>

\* the ancestor lookup finds every ancestor the tree holds
Init == InitWith({{}})

\* the ancestor lookup may find no node at level 1 or at level 2
InitMissing == InitWith({{}, {1}, {2}})

Line(label, node, text) == [label |-> label, node |-> node, text |-> text]

\* the calls a recursive traversal still owes after processing node:
\* first the childNode subtree, then the nextNode sibling
PushChildren(t, node, rest) ==
    (IF childNode(t, node) # NULL THEN <<childNode(t, node)>> ELSE <<>>)
    \o (IF nextNode(t, node) # NULL THEN <<nextNode(t, node)>> ELSE <<>>)
    \o rest

\* the traversal returns to main when no call is pending
AfterVisit(newStack) == IF newStack = <<>> THEN "run" ELSE pc

(***************************************************************************)
(* main, lines 531-571.                                                    *)
(***************************************************************************)
\* lines 536-561: loading or parsing the file fails, or it succeeds
Startup ==
    /\ pc = "start"
    /\ \E loaded \in BOOLEAN :
         IF loaded
         THEN pc' = "open" /\ exitStatus' = exitStatus
         ELSE pc' = "done" /\ exitStatus' = "failure"
    /\ UNCHANGED <<inputVars, modes, stack, visited, stats, dumpCount, out,
                   diag, diskVars, traceVars, versionVars>>

\* line 563: output_open_document()
OpenDocument ==
    /\ pc = "open"
    /\ out' = Append(out, Line("<open>", NULL, <<>>))
    /\ pc' = "resources"
    /\ UNCHANGED <<inputVars, modes, stack, visited, stats, dumpCount, diag,
                   diskVars, exitStatus, traceVars, versionVars>>

\* lines 565-571: pe_resources() gives the tree, or reports no resources
LoadResources ==
    /\ pc = "resources"
    /\ \E found \in BOOLEAN :
         IF found
         THEN /\ modes' = Modes(options)
              /\ pc' = "run"
              /\ UNCHANGED <<diag, exitStatus>>
         ELSE /\ diag' = Append(diag, Line("This file has no resources", NULL, <<>>))
              /\ pc' = "done"
              /\ exitStatus' = "success"
              /\ UNCHANGED modes
    /\ UNCHANGED <<inputVars, stack, visited, stats, dumpCount, out,
                   diskVars, traceVars, versionVars>>

\* lines 573-590: main calls the next traversal on root_node, or goes on to
\* close the document
Dispatch ==
    /\ pc = "run"
    /\ IF modes = <<>>
       THEN /\ pc' = "close"
            /\ UNCHANGED <<modes, stack, visited, stats, vpc>>
       ELSE /\ pc' = Head(modes)
            /\ modes' = Tail(modes)
            /\ stack' = <<root_node>>
            /\ visited' = <<>>
            /\ stats' = IF Head(modes) = "stats" THEN ZeroStats ELSE stats
            /\ vpc' = IF Head(modes) = "version" THEN "begin" ELSE vpc
    /\ UNCHANGED <<inputVars, dumpCount, out, diag, diskVars, exitStatus,
                   traceVars, vOuter, vInner, vI, vJ, released>>

\* line 592: output_close_document()
CloseDocument ==
    /\ pc = "close"
    /\ out' = Append(out, Line("<close>", NULL, <<>>))
    /\ pc' = "unload"
    /\ UNCHANGED <<inputVars, modes, stack, visited, stats, dumpCount, diag,
                   diskVars, exitStatus, traceVars, versionVars>>

\* lines 595-606: pe_unload() and the exit status
Unload ==
    /\ pc = "unload"
    /\ \E unloaded \in BOOLEAN :
         exitStatus' = IF unloaded THEN "success" ELSE "failure"
    /\ pc' = "done"
    /\ UNCHANGED <<inputVars, modes, stack, visited, stats, dumpCount, out,
                   diag, diskVars, traceVars, versionVars>>

(***************************************************************************)
(* Dump: peres_show_nodes and peres_show_node.                             *)
(***************************************************************************)
\* the labels peres_show_node emits for a node of the given type
NodeLabels(type) ==
    CASE type = "ResourceDirectory" ->
           <<"Node Type / Level", "Characteristics", "Timestamp",
             "Major Version", "Minor Version", "Named entries", "Id entries">>
      [] type = "DirectoryEntry" ->
           <<"Node Type / Level", "Name offset", "Name is string",
             "Offset to directory", "Data is directory">>
      [] type = "DataString" ->
           <<"Node Type / Level", "String len", "String">>
      [] type = "DataEntry" ->
           <<"Node Type / Level", "OffsetToData", "Size", "CodePage",
             "Reserved">>

peres_show_node(t, node) ==
    LET labels == NodeLabels(Node(t, node).type)
    IN  [i \in 1..Len(labels) |-> Line(labels[i], node, <<>>)]

\* lines 222-227: the DataString case reads Length and then
\* min(sizeof(ascii_string), Length + 1) wide characters with no bounds
\* check; TRUE when all of it lies in the mapped range
ShowNodeReadsInMap(t, node) ==
    LET n == Node(t, node)
    IN  n.type = "DataString" =>
          /\ InMap(<<n.strAddr, n.strAddr + SizeofDataString>>)
          /\ InMap(<<n.strAddr + 2,
                     n.strAddr + 2
                       + 2 * Min(MAX_MSG, ReadLength(n.strAddr) + 1)>>)

\* peres_show_nodes: one call on a node that is not NULL
ShowNodesStep ==
    /\ pc = "nodes"
    /\ stack # <<>>
    /\ LET node == Head(stack)
           newStack == PushChildren(tree, node, Tail(stack))
       IN  \E crash \in BOOLEAN :
             IF crash /\ ~ShowNodeReadsInMap(tree, node)
             THEN /\ pc' = "crashed"
                  /\ UNCHANGED <<stack, visited, out, dumpCount>>
             ELSE /\ out' = out \o peres_show_node(tree, node)
                  /\ visited' = Append(visited, node)
                  /\ stack' = newStack
                  /\ dumpCount' = Len(visited) + 1
                  /\ pc' = AfterVisit(newStack)
    /\ UNCHANGED <<inputVars, modes, stats, diag, diskVars, exitStatus,
                   traceVars, versionVars>>

(***************************************************************************)
(* Stats: peres_generate_stats and peres_show_stats.                       *)
(***************************************************************************)
\* a count that leaves the DataString case out of the switch
CountNodeNoString(st, type) ==
    LET counted == [st EXCEPT !.totalCount = @ + 1]
    IN  CASE type = "ResourceDirectory" ->
               [counted EXCEPT !.totalResourceDirectory = @ + 1]
          [] type = "DirectoryEntry" ->
               [counted EXCEPT !.totalDirectoryEntry = @ + 1]
          [] type = "DataEntry" ->
               [counted EXCEPT !.totalDataEntry = @ + 1]
          [] OTHER -> counted

\* lines 480-495: the counters after one node of the given type
CountNode(st, type) ==
    LET counted == [st EXCEPT !.totalCount = @ + 1]
    IN  CASE type = "ResourceDirectory" ->
               [counted EXCEPT !.totalResourceDirectory = @ + 1]
          [] type = "DirectoryEntry" ->
               [counted EXCEPT !.totalDirectoryEntry = @ + 1]
          [] type = "DataString" ->
               [counted EXCEPT !.totalDataString = @ + 1]
          [] type = "DataEntry" ->
               [counted EXCEPT !.totalDataEntry = @ + 1]
          [] OTHER -> counted

\* peres_generate_stats: one call on a node that is not NULL
StatsStep ==
    /\ pc = "stats"
    /\ stack # <<>>
    /\ LET node == Head(stack)
       IN  /\ stats' = CountNode(stats, Node(tree, node).type)
           /\ visited' = Append(visited, node)
           /\ stack' = PushChildren(tree, node, Tail(stack))
    /\ UNCHANGED <<inputVars, pc, modes, dumpCount, out, diag, diskVars,
                   exitStatus, traceVars, versionVars>>

\* lines 513-528: the five totals, emitted once the traversal has returned
ShowStatsEmit ==
    /\ pc = "stats"
    /\ stack = <<>>
    /\ out' = out \o
         << Line("Total Structs", NULL, FormatDec(stats.totalCount)),
            Line("Total Resource Directory", NULL,
                 FormatDec(stats.totalResourceDirectory)),
            Line("Total Directory Entry", NULL,
                 FormatDec(stats.totalDirectoryEntry)),
            Line("Total Data String", NULL, FormatDec(stats.totalDataString)),
            Line("Total Data Entry", NULL, FormatDec(stats.totalDataEntry)) >>
    /\ pc' = "run"
    /\ UNCHANGED <<inputVars, modes, stack, visited, stats, dumpCount, diag,
                   diskVars, exitStatus, traceVars, versionVars>>

(***************************************************************************)
(* List: peres_show_list and peres_show_list_node.                         *)
(***************************************************************************)
\* " (%d bytes)"
ListSuffix(size) ==
    <<32, 40>> \o FormatDec(size) \o <<32, 98, 121, 116, 101, 115, 41>>

\* the call ran into undefined behaviour: a read outside the mapped range
\* or a write outside the output buffer
Undefined(r, output_size) ==
    \/ \E rd \in r.reads : ~InMap(rd)
    \/ \E w \in r.writes : w < 0 \/ w >= output_size

BuildDiag(r, node) ==
    IF r.status = "unreadable"
    THEN <<Line("Cannot read IMAGE_RESOURCE_DATA_STRING_U", node, <<>>)>>
    ELSE <<>>

\* lines 302-307: peres_show_list_node on a DataEntry, r being what the
\* path builder did
ShowListNode(node, newStack, r, crash) ==
    /\ checks' = r.checks
    /\ reads' = r.reads
    /\ writes' = r.writes
    /\ derefs' = r.derefs
    /\ IF r.status = "null" \/ (crash /\ Undefined(r, MAX_PATH))
       THEN /\ pc' = "crashed"
            /\ UNCHANGED <<stack, visited, out, diag>>
       ELSE /\ out' = Append(out,
                             Line("list", node,
                                  r.output \o ListSuffix(Node(tree, node).Size)))
            /\ diag' = diag \o BuildDiag(r, node)
            /\ visited' = Append(visited, node)
            /\ stack' = newStack
            /\ pc' = AfterVisit(newStack)

ListVisit(node, newStack) ==
    IF Node(tree, node).type # "DataEntry"
    THEN /\ visited' = Append(visited, node)
         /\ stack' = newStack
         /\ pc' = AfterVisit(newStack)
         /\ UNCHANGED <<out, diag, traceVars>>
    ELSE \E garbage \in GarbageSet, crash \in BOOLEAN :
           ShowListNode(node, newStack,
                        peres_build_node_filename(tree, lost, node, MAX_PATH,
                                                  garbage),
                        crash)

\* peres_show_list: one call on a node that is not NULL
ListStep ==
    /\ pc = "list"
    /\ stack # <<>>
    /\ ListVisit(Head(stack), PushChildren(tree, Head(stack), Tail(stack)))
    /\ UNCHANGED <<inputVars, modes, stats, dumpCount, diskVars, exitStatus,
                   versionVars>>

(***************************************************************************)
(* Extraction: peres_save_all_resources and peres_save_resource.           *)
(***************************************************************************)
\* lines 348-353: the category directory of a level-1 DirectoryEntry
SaveDirName(folder) ==
    LET entry_info == LookupByName(folder.Name)
    IN  IF entry_info # NoEntryInfo
        THEN Snprintf(DirNameSize, Str_resources \o ChSlash \o entry_info.dir_name)
        ELSE Snprintf(DirNameSize, Str_resources)

\* lines 377, 382: the extension
SaveExtension(folder) ==
    LET entry_info == LookupByName(folder.Name)
    IN  IF entry_info # NoEntryInfo THEN entry_info.extension ELSE Str_bin

\* lines 379-382: the default-mode file name
DefaultFileName(folder, name_node) ==
    Snprintf(MAX_PATH,
             SaveDirName(folder) \o ChSlash \o FormatDec(name_node.NameOffset)
               \o SaveExtension(folder))

\* lines 373-377: the named-mode file name, from the path builder's text
NamedFileName(folder, fileName) ==
    Snprintf(MAX_PATH,
             SaveDirName(folder) \o ChSlash \o fileName \o SaveExtension(folder))

\* lines 329-332: the byte range of a DataEntry
DataRange(n) ==
    <<pe_rva2ofs(n.OffsetToData), pe_rva2ofs(n.OffsetToData) + n.Size>>

\* line 332: pe_can_read(ctx, raw_data_ptr, raw_data_size)
DataReadable(n) == pe_can_read(pe_rva2ofs(n.OffsetToData), n.Size)

\* what one call of peres_save_resource does: end is "saved", "return" (an
\* early return) or "crash"
NoEffect ==
    [end |-> "return", diag |-> <<>>, dirs |-> {}, name |-> NULL,
     checks |-> {}, reads |-> {}, writes |-> {}, derefs |-> {}]

\* lines 386-394: fopen, fwrite, fclose and the "Save On" line
SaveWrite(e, n, opened, relativeFileName) ==
    IF ~opened THEN e
    ELSE [e EXCEPT !.end = "saved", !.name = relativeFileName,
                   !.reads = @ \cup {DataRange(n)}]

\* lines 369-377: named mode, r being what the path builder did
SaveNamed(e, node, n, folder, r, opened, crash) ==
    IF r.status = "null" \/ (crash /\ Undefined(r, MAX_PATH))
    THEN [e EXCEPT !.end = "crash", !.checks = @ \cup r.checks,
                   !.reads = r.reads, !.writes = r.writes,
                   !.derefs = @ \cup r.derefs]
    ELSE SaveWrite([e EXCEPT !.checks = @ \cup r.checks, !.reads = r.reads,
                             !.writes = r.writes, !.diag = BuildDiag(r, node),
                             !.derefs = @ \cup r.derefs],
                   n, opened, NamedFileName(folder, r.output))

\* lines 358-383: the level-2 ancestor and the file name
SaveName(t, ls, e, node, n, folder, name_node, namedExtract, garbage, opened, crash) ==
    IF name_node = NULL
    THEN [e EXCEPT
            !.diag = <<Line("pe_resource_find_parent_node_by_type_and_level returned NULL",
                            node, <<>>)>>]
    ELSE IF namedExtract
    THEN SaveNamed(e, node, n, folder,
                   peres_build_node_filename(t, ls, node, MAX_PATH, garbage),
                   opened, crash)
    ELSE SaveWrite([e EXCEPT !.derefs = @ \cup {name_node}], n, opened,
                   DefaultFileName(folder, Node(t, name_node)))

\* lines 347-356: the level-1 ancestor, dereferenced with no test, and the
\* category directory
SaveFolder(t, ls, e, node, n, folder_node, namedExtract, garbage, opened, crash) ==
    IF folder_node = NULL
    THEN [e EXCEPT !.end = "crash", !.derefs = {NULL}]
    ELSE SaveName(t, ls,
                  [e EXCEPT !.dirs = @ \cup {SaveDirName(Node(t, folder_node))},
                            !.derefs = {folder_node}],
                  node, n, Node(t, folder_node),
                  pe_resource_find_parent_node_by_type_and_level(
                      t, ls, node, "DirectoryEntry", LIBPE_RDT_LEVEL2),
                  namedExtract, garbage, opened, crash)

\* an extractor that goes on to the directories with no bounds check
SaveUnchecked(t, ls, node, n, namedExtract, garbage, opened, crash) ==
    SaveFolder(t, ls,
               [NoEffect EXCEPT !.dirs = {Str_resources}],
               node, n,
               pe_resource_find_parent_node_by_type_and_level(
                   t, ls, node, "DirectoryEntry", LIBPE_RDT_LEVEL1),
               namedExtract, garbage, opened, crash)

\* lines 329-342: the bounds check and the base directory
SaveChecked(t, ls, node, n, namedExtract, garbage, opened, crash) ==
    IF ~DataReadable(n)
    THEN [NoEffect EXCEPT
            !.diag = <<Line("Attempted to read range", node, <<>>)>>]
    ELSE SaveFolder(t, ls,
                    [NoEffect EXCEPT !.checks = {DataRange(n)},
                                     !.dirs = {Str_resources}],
                    node, n,
                    pe_resource_find_parent_node_by_type_and_level(
                        t, ls, node, "DirectoryEntry", LIBPE_RDT_LEVEL1),
                    namedExtract, garbage, opened, crash)

peres_save_resource(t, ls, node, namedExtract, garbage, opened, crash) ==
    SaveChecked(t, ls, node, Node(t, node), namedExtract, garbage, opened,
                crash)

\* line 402: the nodes peres_save_all_resources saves
IsSaved(n) == n.type = "DataEntry" /\ n.dirLevel = 3

\* the state after peres_save_resource did e
SaveApply(node, newStack, e) ==
    /\ checks' = e.checks
    /\ reads' = e.reads
    /\ writes' = e.writes
    /\ derefs' = e.derefs
    /\ dirs' = dirs \cup e.dirs
    /\ diag' = diag \o e.diag
    /\ files' = IF e.end = "saved"
                THEN {f \in files : f.name # e.name}
                     \cup {[name |-> e.name, node |-> node]}
                ELSE files
    /\ out' = IF e.end = "saved"
              THEN Append(out, Line("Save On", node, e.name))
              ELSE out
    /\ IF e.end = "crash"
       THEN /\ pc' = "crashed"
            /\ UNCHANGED <<stack, visited>>
       ELSE /\ visited' = Append(visited, node)
            /\ stack' = newStack
            /\ pc' = AfterVisit(newStack)

SaveVisit(node, newStack) ==
    IF ~IsSaved(Node(tree, node))
    THEN /\ visited' = Append(visited, node)
         /\ stack' = newStack
         /\ pc' = AfterVisit(newStack)
         /\ UNCHANGED <<out, diag, diskVars, traceVars>>
    ELSE \E garbage \in GarbageSet, opened \in BOOLEAN, crash \in BOOLEAN :
           SaveApply(node, newStack,
                     peres_save_resource(tree, lost, node,
                                         options.namedExtract, garbage,
                                         opened, crash))

\* peres_save_all_resources: one call on a node that is not NULL
SaveStep ==
    /\ pc = "save"
    /\ stack # <<>>
    /\ SaveVisit(Head(stack), PushChildren(tree, Head(stack), Tail(stack)))
    /\ UNCHANGED <<inputVars, modes, stats, dumpCount, exitStatus,
                   versionVars>>

(***************************************************************************)
(* Version decoding: peres_show_version.                                   *)
(***************************************************************************)
\* lines 410-418
peres_contains_version_node(n) ==
    /\ n.type = "DirectoryEntry"
    /\ n.dirLevel = LIBPE_RDT_LEVEL1
    /\ n.NameOffset = RT_VERSION

\* lines 420-422
peres_is_version_node(n) == n.type = "DataEntry"

\* the call of a predicate through its function pointer
CallPredicate(predicate, n) ==
    CASE predicate = "peres_contains_version_node" ->
           peres_contains_version_node(n)
      [] predicate = "peres_is_version_node" -> peres_is_version_node(n)

\* pe_resource_search_nodes: the nodes of the subtree of node that satisfy
\* the predicate, in pre-order
pe_resource_search_nodes(t, node, predicate) ==
    LET Holds(p) == CallPredicate(predicate, Node(t, p))
    IN  SelectSeq(SubtreeNodes(t, node), Holds)

\* the 32-bit fields of the image that hold a version record
ReadDword(a, garbage) ==
    IF a + 4 > MapSize THEN garbage
    ELSE CASE a = 176 -> 65538
           [] a = 180 -> 196612
           [] a = 184 -> 131072
           [] a = 188 -> 1
           [] OTHER -> 0

\* lines 449-453: "%u.%u.%u.%u" of the halves of MS and LS
VersionText(ms, ls) ==
    FormatDec(ms \div 65536) \o <<46>>
    \o FormatDec(ms % 65536) \o <<46>>
    \o FormatDec(ls \div 65536) \o <<46>>
    \o FormatDec(ls % 65536)

\* line 440: data_ptr
VersionPtr(n) == VersionSkip + pe_rva2ofs(n.OffsetToData)

\* line 441: pe_can_read(ctx, data_ptr, data_size)
VersionReadable(n) == pe_can_read(VersionPtr(n), n.Size)

\* lines 450-460: the bytes of VS_FIXEDFILEINFO read, from dwFileVersionMS
\* (offset 8) to dwProductVersionLS (offset 20)
VersionRead(n) == <<VersionPtr(n) + 8, VersionPtr(n) + 24>>

\* lines 428-429: the search for the version subtrees
ShowVersionBegin ==
    /\ pc = "version"
    /\ vpc = "begin"
    /\ vOuter' = pe_resource_search_nodes(tree, root_node,
                                          "peres_contains_version_node")
    /\ released' = <<0>>
    /\ vI' = 1
    /\ vInner' = <<>>
    /\ vJ' = 0
    /\ vpc' = "outer"
    /\ UNCHANGED <<inputVars, pc, modes, stack, visited, stats, dumpCount,
                   out, diag, diskVars, exitStatus, traceVars>>

\* lines 432-436: the next version subtree and the search for its leaves
ShowVersionParent ==
    /\ pc = "version"
    /\ vpc = "outer"
    /\ vI <= Len(vOuter)
    /\ vInner' = pe_resource_search_nodes(tree, vOuter[vI], "peres_is_version_node")
    /\ released' = Append(released, 0)
    /\ vJ' = 1
    /\ vpc' = "inner"
    /\ UNCHANGED <<inputVars, pc, modes, stack, visited, stats, dumpCount,
                   out, diag, diskVars, exitStatus, traceVars, vOuter, vI>>

\* line 443: what the decoder does after the warning for an unreadable leaf
\* ("return": peres_show_version returns to main)
UnreadableLeafEnd == "return"

\* lines 437-462: one leaf
ShowVersionLeaf ==
    /\ pc = "version"
    /\ vpc = "inner"
    /\ vJ <= Len(vInner)
    /\ LET node == vInner[vJ]
           n == Node(tree, node)
       IN  IF ~VersionReadable(n)
           THEN /\ diag' = Append(diag,
                                  Line("Cannot read VS_FIXEDFILEINFO", node, <<>>))
                /\ checks' = {}
                /\ reads' = {}
                /\ IF UnreadableLeafEnd = "return"
                   THEN vpc' = "idle" /\ pc' = "run" /\ vJ' = vJ
                   ELSE vpc' = vpc /\ pc' = pc /\ vJ' = vJ + 1
                /\ UNCHANGED out
           ELSE \E garbage \in GarbageSet, crash \in BOOLEAN :
                  /\ checks' = {<<VersionPtr(n), VersionPtr(n) + n.Size>>}
                  /\ reads' = {VersionRead(n)}
                  /\ IF crash /\ ~InMap(VersionRead(n))
                     THEN /\ pc' = "crashed"
                          /\ UNCHANGED <<vpc, vJ, out, diag>>
                     ELSE /\ out' = out \o
                            << Line("File Version", node,
                                    VersionText(
                                      ReadDword(VersionPtr(n) + 8, garbage),
                                      ReadDword(VersionPtr(n) + 12, garbage))),
                               Line("Product Version", node,
                                    VersionText(
                                      ReadDword(VersionPtr(n) + 16, garbage),
                                      ReadDword(VersionPtr(n) + 20, garbage))) >>
                          /\ vJ' = vJ + 1
                          /\ UNCHANGED <<pc, vpc, diag>>
    /\ writes' = {}
    /\ derefs' = {}
    /\ UNCHANGED <<inputVars, modes, stack, visited, stats, dumpCount,
                   diskVars, exitStatus, vOuter, vInner, vI, released>>

\* line 463: pe_resources_dealloc_node_search_result(&result_is_version_node)
ShowVersionInnerDealloc ==
    /\ pc = "version"
    /\ vpc = "inner"
    /\ vJ > Len(vInner)
    /\ released' = [released EXCEPT ![Len(released)] = @ + 1]
    /\ vI' = vI + 1
    /\ vpc' = "outer"
    /\ UNCHANGED <<inputVars, pc, modes, stack, visited, stats, dumpCount,
                   out, diag, diskVars, exitStatus, traceVars, vOuter,
                   vInner, vJ>>

\* line 465: pe_resources_dealloc_node_search_result(
\* &result_contains_version_node), then the return to main
ShowVersionOuterDealloc ==
    /\ pc = "version"
    /\ vpc = "outer"
    /\ vI > Len(vOuter)
    /\ released' = [released EXCEPT ![1] = @ + 1]
    /\ vpc' = "idle"
    /\ pc' = "run"
    /\ UNCHANGED <<inputVars, modes, stack, visited, stats, dumpCount, out,
                   diag, diskVars, exitStatus, traceVars, vOuter, vInner,
                   vI, vJ>>

(***************************************************************************)
(* The program.                                                            *)
(***************************************************************************)
Next ==
    \/ Startup
    \/ OpenDocument
    \/ LoadResources
    \/ Dispatch
    \/ ShowNodesStep
    \/ StatsStep
    \/ ShowStatsEmit
    \/ ListStep
    \/ SaveStep
    \/ ShowVersionBegin
    \/ ShowVersionParent
    \/ ShowVersionLeaf
    \/ ShowVersionInnerDealloc
    \/ ShowVersionOuterDealloc
    \/ CloseDocument
    \/ Unload

Spec == Init /\ [][Next]_vars

SpecMissing == InitMissing /\ [][Next]_vars

(***************************************************************************)
(* Properties.                                                             *)
(***************************************************************************)
\* the elements of a sequence
Range(s) == {s[i] : i \in DOMAIN s}

\* the DirectoryEntry ancestor of node p at the given level
Ancestor(p, level) ==
    Node(tree, FindUp(tree, parentNode(tree, p), "DirectoryEntry", level))

\* C1: in path building, extraction and version decoding every range of the
\* image read in a call lies inside a range that pe_can_read accepted in
\* that call.
C1_ReadsChecked == \A r \in reads : Covered(r, checks)

\* ------------------------------------------------------------------------
\* C2: a level-3 DataEntry whose byte range is not readable gives no file,
\* no directory and no "Save On" line and exactly one diagnostic, and the
\* other level-3 DataEntry nodes are extracted as they are without it.
C2_Unreadable(p) == IsSaved(Node(tree, p)) /\ ~DataReadable(Node(tree, p))

C2_Readable(p) == IsSaved(Node(tree, p)) /\ DataReadable(Node(tree, p))

\* the file names the extractor can give node p, from p's ancestors alone
C2_Names(p) ==
    IF options.namedExtract
    THEN { NamedFileName(Ancestor(p, 1),
                         peres_build_node_filename(tree, lost, p, MAX_PATH,
                                                   g).output) :
             g \in GarbageSet }
    ELSE { DefaultFileName(Ancestor(p, 1), Ancestor(p, 2)) }

C2_LineOk(l) ==
    /\ l.label = "Save On" => C2_Readable(l.node) /\ l.text \in C2_Names(l.node)

C2_DiagOk(i) ==
    diag[i].label = "Attempted to read range" =>
        /\ C2_Unreadable(diag[i].node)
        /\ \A j \in DOMAIN diag : diag[j] = diag[i] => j = i

C2_Disk ==
    /\ \A i \in DOMAIN out : C2_LineOk(out[i])
    /\ \A i \in DOMAIN diag : C2_DiagOk(i)
    /\ \A f \in files :
         /\ C2_Readable(f.node)
         /\ Line("Save On", f.node, f.name) \in Range(out)
    /\ \A d \in dirs :
         \E p \in Range(SubtreeNodes(tree, root_node)) :
            /\ C2_Readable(p)
            /\ d \in {Str_resources, SaveDirName(Ancestor(p, 1))}

\* the extraction is about to process an unreadable level-3 DataEntry
C2_FailingStep ==
    /\ pc = "save"
    /\ stack # <<>>
    /\ C2_Unreadable(Head(stack))

\* the step leaves the disk and the report alone, writes one diagnostic and
\* goes on with the traversal
C2_OnlyDiagnostic ==
    /\ diag' = Append(diag, Line("Attempted to read range", Head(stack), <<>>))
    /\ UNCHANGED <<out, dirs, files>>
    /\ visited' = Append(visited, Head(stack))
    /\ stack' = PushChildren(tree, Head(stack), Tail(stack))
    /\ pc' \in {"save", "run"}

C2_UnreadableSkipped ==
    /\ []C2_Disk
    /\ [][C2_FailingStep => C2_OnlyDiagnostic]_vars

\* an unreadable node was skipped and a node after it was saved
C2_Witness ==
    \E a, b \in DOMAIN visited :
        /\ a < b
        /\ C2_Unreadable(visited[a])
        /\ Line("Attempted to read range", visited[a], <<>>) \in Range(diag)
        /\ \E l \in Range(out) : l.label = "Save On" /\ l.node = visited[b]
        /\ dirs # {}

\* ------------------------------------------------------------------------
\* the version decoder has returned to main
VersionReturned == released # <<>> /\ vpc = "idle"

\* the DataEntry leaves the searches of the version decoder find
VersionLeaves ==
    UNION { Range(pe_resource_search_nodes(tree, p, "peres_is_version_node")) :
              p \in Range(pe_resource_search_nodes(
                               tree, root_node, "peres_contains_version_node")) }

\* C3: when a version leaf fails the bounds check, every other leaf the
\* search finds whose range is readable still has its "File Version" and
\* "Product Version" lines once the decoder has returned.
C3_OtherLeavesDecoded ==
    VersionReturned =>
        \A leaf \in VersionLeaves :
            VersionReadable(Node(tree, leaf)) =>
                /\ \E l \in Range(out) :
                      l.label = "File Version" /\ l.node = leaf
                /\ \E l \in Range(out) :
                      l.label = "Product Version" /\ l.node = leaf

\* C4: when the version decoder has returned, every result list a search
\* allocated has been released exactly once.
C4_ReleasedOnce ==
    VersionReturned => \A i \in DOMAIN released : released[i] = 1

\* C5: a missing ancestor (the lookup gave NULL) is never dereferenced, in
\* the path builder or in the extractor.
C5_MissingNotDereferenced == NULL \notin derefs

\* ------------------------------------------------------------------------
\* C6: after the stats traversal totalCount is the sum of the four counts
\* per node type and the number of nodes the dump traversal of the same
\* tree visits.
C6_Sum(st) ==
    st.totalResourceDirectory + st.totalDirectoryEntry + st.totalDataString
    + st.totalDataEntry

\* the stats traversal has returned and the totals are not yet emitted
C6_StatsDone == pc = "stats" /\ stack = <<>>

C6_TotalCount ==
    /\ stats.totalCount = C6_Sum(stats)
    /\ C6_StatsDone =>
         /\ stats.totalCount = Len(SubtreeNodes(tree, root_node))
         /\ dumpCount # -1 => stats.totalCount = dumpCount

\* the stats traversal returned after a dump of a tree with string names
C6_Witness ==
    /\ C6_StatsDone
    /\ dumpCount > 0
    /\ stats.totalDataString > 0
    /\ stats.totalDataEntry > 1

\* ------------------------------------------------------------------------
\* C7: two "Save On" lines of a default-mode extraction, for distinct leaves
\* of one category directory whose level-2 entries carry different Name
\* fields, name distinct files, and both files are on disk.
C7_Differ(a, b) ==
    /\ a.label = "Save On"
    /\ b.label = "Save On"
    /\ a.node # b.node
    /\ Ancestor(a.node, 2).Name # Ancestor(b.node, 2).Name
    /\ SaveDirName(Ancestor(a.node, 1)) = SaveDirName(Ancestor(b.node, 1))

C7_DistinctFileNames ==
    ~options.namedExtract =>
        \A a, b \in Range(out) :
            C7_Differ(a, b) =>
                /\ a.text # b.text
                /\ [name |-> a.text, node |-> a.node] \in files
                /\ [name |-> b.text, node |-> b.node] \in files

\* C8: the path builder writes only at indices 0..N-1 of the output buffer
\* of capacity N it was given.
C8_WritesInBuffer == \A w \in writes : 0 <= w /\ w <= MAX_PATH - 1

\* C9: when main ends with a success status after output_open_document,
\* output_close_document was called exactly once, after every line.
C9_ClosedOnce ==
    (pc = "done" /\ exitStatus = "success"
       /\ \E l \in Range(out) : l.label = "<open>") =>
        /\ Cardinality({i \in DOMAIN out : out[i].label = "<close>"}) = 1
        /\ Last(out).label = "<close>"

\* C10: a traversal that has stopped has processed every node of the tree
\* once, in depth-first pre-order.
C10_VisitsAll ==
    (visited # <<>> /\ (stack = <<>> \/ pc = "crashed")) =>
        visited = SubtreeNodes(tree, root_node)

\* ------------------------------------------------------------------------
\* the number of slash characters of a text
Slashes(text) == Cardinality({i \in DOMAIN text : <<text[i]>> = ChSlash})

\* C11: the path the path builder produces holds no slash, whatever the
\* names of the ancestors: no line of the list holds one, and a named-mode
\* file name holds only the slashes of its category directory and the one
\* that follows it.
C11_SlashFree ==
    \A l \in Range(out) :
        /\ l.label = "list" => Slashes(l.text) = 0
        /\ (l.label = "Save On" /\ options.namedExtract) =>
              Slashes(l.text) = Slashes(SaveDirName(Ancestor(l.node, 1))) + 1

====
